---- MODULE Spec2Model ----
(***************************************************************************)
(* A model of src/bad_cpp_sample.cpp.                                      *)
(*                                                                         *)
(* Independent parts of the file are modelled, each with its own           *)
(* specification over its own variables:                                   *)
(*   SpecThreads   main() lines 263-289 and thread_function(): the shared  *)
(*                 globals g_counter, g_buffer and g_mutex;                *)
(*   SpecSingleton BadSingleton::getInstance() and the public destructor,  *)
(*                 called by concurrent client threads;                    *)
(*   SpecResource  BadResourceManager / DerivedBadClass: construction,     *)
(*                 copy construction and destruction, with heap and file   *)
(*                 accounting;                                             *)
(*   SpecJni       Java_com_example_BadClass_processString;                *)
(*   SpecCalls     memory_corruption_example and exception_safety_issues;  *)
(*   SpecCalc      calculate_buffer_size.                                  *)
(***************************************************************************)
EXTENDS Integers, Sequences, FiniteSets, TLC

(***************************************************************************)
(* State                                                                   *)
(***************************************************************************)

\* Part 1: the globals of lines 29-31 and the threads of main().
VARIABLES
  pc,            \* position of each thread
  process,       \* "running" | "crashed" | "exited"
  g_counter,     \* int g_counter (line 30)
  g_buffer,      \* capacity of the block g_buffer points at, 0 for NULL (line 29)
  g_buffer_len,  \* bytes of g_buffer's block holding text
  overrun,       \* bytes stored past the end of g_buffer's block
  g_mutex,       \* [init, owner]: pthread_mutex_t g_mutex (line 31)
  reg,           \* per thread: the value loaded by g_counter++
  temp,          \* per worker: "unset" | "null" | "block" (line 96)
  started,       \* number of pthread_create calls made
  lock_rc,       \* what main's pthread_mutex_lock returned: "none" | "ok" | "error"
  uninit_ops     \* lock/unlock calls made on g_mutex while it was uninitialised

threadVars == <<pc, process, g_counter, g_buffer, g_buffer_len, overrun,
                g_mutex, reg, temp, started, lock_rc, uninit_ops>>

\* Part 2: BadSingleton and its clients.
VARIABLES
  instance,      \* static BadSingleton* instance (lines 239, 243); 0 is nullptr
  ctor_runs,     \* BadSingleton() has run this many times; objects are 1..ctor_runs
  deleted,       \* objects the destructor has been run on
  deletes,       \* number of delete expressions evaluated
  double_deletes,\* deletes of an object already deleted
  s_pc,          \* per client: "idle" | "check" | "new" | "assign" | "ret"
  s_local,       \* per client: the pointer new returned, not yet stored
  s_ret,         \* per client: the pointer its last completed call returned
  s_out,         \* per client: outcome of the last completed call
  s_calls,       \* per client: calls begun
  s_after_delete,\* per client: the current/last call began after a delete
  s_begin_ret    \* per client: pointers already returned when the call began

singVars == <<instance, ctor_runs, deleted, deletes, double_deletes, s_pc, s_local,
              s_ret, s_out, s_calls, s_after_delete, s_begin_ret>>

\* Part 3: BadResourceManager / DerivedBadClass objects, the heap and the
\* open files.
VARIABLES
  obj,           \* per slot: the object's fields and lifecycle
  heap_new,      \* blocks obtained by new[] and not yet delete[]d
  heap_malloc,   \* blocks obtained by malloc and not yet freed
  open_files,    \* FILE handles opened and not yet closed
  next_id        \* the next fresh block / handle identity

resVars == <<obj, heap_new, heap_malloc, open_files, next_id>>

\* Part 4: one thread calling Java_com_example_BadClass_processString.
VARIABLES
  j_pc,          \* "idle" | "get" | "sprintf" | "newstring" | "returned" | "fault"
  j_input,       \* jstring input: NullRef, or the length of its UTF text
  native_string, \* "unset" | "null" | "chars": what GetStringUTFChars returned
  j_result_len,  \* bytes of char result[100] written by sprintf
  j_overrun,     \* bytes sprintf stored past the end of result
  j_borrowed,    \* strings obtained by GetStringUTFChars and not released
  j_ret,         \* "none" | "jstring" | "null": the value returned
  j_calls        \* calls begun

jniVars == <<j_pc, j_input, native_string, j_result_len, j_overrun, j_borrowed,
             j_ret, j_calls>>

\* Part 5: one thread calling memory_corruption_example and
\* exception_safety_issues, and the heap and files they use.
VARIABLES
  f_fn,          \* the function being run, or last run
  f_pc,          \* position in it; "idle" between calls, "fault" when aborted
  f_exit,        \* how the last call left: "none" | "return" | "throw"
  f_calls,       \* calls begun
  blocks,        \* heap blocks by identity: "allocated" | "freed"
  files,         \* FILE handles by identity: "open" | "closed"
  buffer1,       \* memory_corruption_example: char* buffer1 (0 is NULL)
  buffer2,       \* memory_corruption_example: char* buffer2
  file,          \* exception_safety_issues: FILE* file
  buffer,        \* exception_safety_issues: char* buffer
  stale_reads,   \* reads of a block made after it was freed
  double_frees   \* frees of a block that was already freed

callVars == <<f_fn, f_pc, f_exit, f_calls, blocks, files, buffer1, buffer2, file,
              buffer, stale_reads, double_frees>>

\* Part 6: one call of calculate_buffer_size.
VARIABLES
  c_pc,          \* "idle" | "multiply" | "test" | "returned" | "trap"
  num_elements,  \* int num_elements
  element_size,  \* int element_size
  total_size,    \* int total_size (line 106)
  c_ret,         \* the value returned
  c_defined      \* whether the value returned is a defined one

calcVars == <<c_pc, num_elements, element_size, total_size, c_ret, c_defined>>

vars == <<threadVars, singVars, resVars, jniVars, callVars, calcVars>>

\* What the actions of one part leave unchanged.
otherThanThreads == <<singVars, resVars, jniVars, callVars, calcVars>>

otherThanSingleton == <<threadVars, resVars, jniVars, callVars, calcVars>>

otherThanResource == <<threadVars, singVars, jniVars, callVars, calcVars>>

otherThanJni == <<threadVars, singVars, resVars, callVars, calcVars>>

otherThanCalls == <<threadVars, singVars, resVars, jniVars, calcVars>>

otherThanCalc == <<threadVars, singVars, resVars, jniVars, callVars>>

(***************************************************************************)
(* Part 1: main() and thread_function()                                    *)
(***************************************************************************)

\* main creates thread1 and thread2 (lines 265-266).
NumWorkers == 2

\* strlen("Thread was here") + 1: the bytes strcpy stores at line 92.
MsgLen == 16

\* The capacities g_buffer may have when the workers run; 0 is NULL.
\* g_buffer has external linkage and is never assigned in this file, so its
\* value is an input of thread_function (which tests it at line 91).
MaxBufCap == 24

BufCaps == {0, 8, MsgLen, MaxBufCap}

MainThread == 0

Workers == 1..NumWorkers

Threads == {MainThread} \cup Workers

NoThread == -1

ThreadsInit ==
  /\ pc = [t \in Threads |-> IF t = MainThread THEN "m_create" ELSE "w_unborn"]
  /\ process = "running"
  /\ g_counter = 0
  /\ g_buffer \in BufCaps
  /\ g_buffer_len = 0
  /\ overrun = 0
  /\ g_mutex = [init |-> FALSE, owner |-> NoThread]
  /\ reg = [t \in Threads |-> 0]
  /\ temp = [w \in Workers |-> "unset"]
  /\ started = 0
  /\ lock_rc = "none"
  /\ uninit_ops = 0

Running(t) == process = "running" /\ t \in Threads

\* The largest value of int g_counter (32 bits).
IntMax == 2147483647

\* g_counter++ on an int, wrapping at 32 bits.
Incr(v) == IF v = IntMax THEN -IntMax - 1 ELSE v + 1

\* pthread_create(&threadN, NULL, thread_function, NULL); the result is ignored.
main_pthread_create ==
  /\ Running(MainThread) /\ pc[MainThread] = "m_create"
  /\ started < NumWorkers
  /\ started' = started + 1
  /\ \E ok \in BOOLEAN :
       pc' = [pc EXCEPT ![started + 1] = IF ok THEN "w_load" ELSE "w_notcreated",
                        ![MainThread] = IF started + 1 = NumWorkers
                                        THEN "m_lock" ELSE "m_create"]
  /\ UNCHANGED <<process, g_counter, g_buffer, g_buffer_len, overrun, g_mutex,
                 reg, temp, lock_rc, uninit_ops, otherThanThreads>>

\* pthread_mutex_lock(&g_mutex) at line 270. g_mutex is never initialised, so
\* the call is undefined: it may acquire the mutex or fail without acquiring it
\* (it may also never return: main then stays at "m_lock"). The result is
\* ignored and main goes on either way.
main_pthread_mutex_lock ==
  /\ Running(MainThread) /\ pc[MainThread] = "m_lock"
  /\ g_mutex.owner = NoThread
  /\ \E rc \in IF g_mutex.init THEN {"ok"} ELSE {"ok", "error"} :
       /\ lock_rc' = rc
       /\ g_mutex' = [g_mutex EXCEPT !.owner = IF rc = "ok" THEN MainThread ELSE @]
  /\ uninit_ops' = IF g_mutex.init THEN uninit_ops ELSE uninit_ops + 1
  /\ pc' = [pc EXCEPT ![MainThread] = "m_load"]
  /\ UNCHANGED <<process, g_counter, g_buffer, g_buffer_len, overrun, reg, temp,
                 started, otherThanThreads>>

\* g_counter++ reads g_counter ...
LoadCounter(t, from, to) ==
  /\ Running(t) /\ pc[t] = from
  /\ reg' = [reg EXCEPT ![t] = g_counter]
  /\ pc' = [pc EXCEPT ![t] = to]
  /\ UNCHANGED <<process, g_counter, g_buffer, g_buffer_len, overrun, g_mutex,
                 temp, started, lock_rc, uninit_ops, otherThanThreads>>

\* ... and writes the value read plus one.
StoreCounter(t, from, to) ==
  /\ Running(t) /\ pc[t] = from
  /\ g_counter' = Incr(reg[t])
  /\ pc' = [pc EXCEPT ![t] = to]
  /\ UNCHANGED <<process, g_buffer, g_buffer_len, overrun, g_mutex, reg, temp,
                 started, lock_rc, uninit_ops, otherThanThreads>>

main_load == LoadCounter(MainThread, "m_load", "m_store")

main_store == StoreCounter(MainThread, "m_store", "m_unlock")

\* A pthread_mutex_unlock that returns without releasing the mutex.
unlock_without_release ==
  /\ Running(MainThread) /\ pc[MainThread] = "m_unlock"
  /\ uninit_ops' = IF g_mutex.init THEN uninit_ops ELSE uninit_ops + 1
  /\ pc' = [pc EXCEPT ![MainThread] = "m_rest"]
  /\ UNCHANGED <<process, g_counter, g_buffer, g_buffer_len, overrun, g_mutex, reg,
                 temp, started, lock_rc, otherThanThreads>>

\* pthread_mutex_unlock(&g_mutex) at line 272.
main_pthread_mutex_unlock ==
  /\ Running(MainThread) /\ pc[MainThread] = "m_unlock"
  /\ g_mutex' = [g_mutex EXCEPT !.owner = IF @ = MainThread THEN NoThread ELSE @]
  /\ uninit_ops' = IF g_mutex.init THEN uninit_ops ELSE uninit_ops + 1
  /\ pc' = [pc EXCEPT ![MainThread] = "m_rest"]
  /\ UNCHANGED <<process, g_counter, g_buffer, g_buffer_len, overrun, reg, temp,
                 started, lock_rc, otherThanThreads>>

\* Lines 275-289: the rest of main ends the process (by a fault at one of the
\* calls or at 100 / divisor, or by returning); no thread was joined, so the
\* workers stop wherever they are.
main_rest ==
  /\ Running(MainThread) /\ pc[MainThread] = "m_rest"
  /\ process' = "exited"
  /\ pc' = [pc EXCEPT ![MainThread] = "m_exited"]
  /\ UNCHANGED <<g_counter, g_buffer, g_buffer_len, overrun, g_mutex, reg, temp,
                 started, lock_rc, uninit_ops, otherThanThreads>>

\* thread_function, line 88: g_counter++ with no lock taken.
thread_function_load(w) == LoadCounter(w, "w_load", "w_store")

thread_function_store(w) == StoreCounter(w, "w_store", "w_check")

\* A worker that goes on to the strcpy without testing g_buffer.
check_omitted(w) ==
  /\ Running(w) /\ pc[w] = "w_check"
  /\ pc' = [pc EXCEPT ![w] = "w_strcpy"]
  /\ UNCHANGED <<process, g_counter, g_buffer, g_buffer_len, overrun, g_mutex,
                 reg, temp, started, lock_rc, uninit_ops, otherThanThreads>>

\* line 91: if (g_buffer != NULL)
thread_function_check(w) ==
  /\ Running(w) /\ pc[w] = "w_check"
  /\ pc' = [pc EXCEPT ![w] = IF g_buffer # 0 THEN "w_strcpy" ELSE "w_malloc"]
  /\ UNCHANGED <<process, g_counter, g_buffer, g_buffer_len, overrun, g_mutex,
                 reg, temp, started, lock_rc, uninit_ops, otherThanThreads>>

\* What strcpy(dst, src) stores for a source of n bytes (terminator included)
\* into a block of cap bytes: <<bytes inside the block, bytes past its end>>.
Strcpy(cap, n) == <<IF n <= cap THEN n ELSE cap, IF n <= cap THEN 0 ELSE n - cap>>

\* line 92: strcpy(g_buffer, "Thread was here")
thread_function_strcpy(w) ==
  /\ Running(w) /\ pc[w] = "w_strcpy"
  /\ g_buffer_len' = Strcpy(g_buffer, MsgLen)[1]
  /\ overrun' = overrun + Strcpy(g_buffer, MsgLen)[2]
  /\ pc' = [pc EXCEPT ![w] = "w_malloc"]
  /\ UNCHANGED <<process, g_counter, g_buffer, g_mutex, reg, temp, started,
                 lock_rc, uninit_ops, otherThanThreads>>

\* line 96: char* temp = (char*)malloc(1000), unchecked.
thread_function_malloc(w) ==
  /\ Running(w) /\ pc[w] = "w_malloc"
  /\ \E r \in {"null", "block"} : temp' = [temp EXCEPT ![w] = r]
  /\ pc' = [pc EXCEPT ![w] = "w_copy"]
  /\ UNCHANGED <<process, g_counter, g_buffer, g_buffer_len, overrun, g_mutex,
                 reg, started, lock_rc, uninit_ops, otherThanThreads>>

\* line 97: strcpy(temp, "Some data"); line 100: return NULL. The block is
\* never freed.
thread_function_return(w) ==
  /\ Running(w) /\ pc[w] = "w_copy" /\ temp[w] = "block"
  /\ pc' = [pc EXCEPT ![w] = "w_done"]
  /\ UNCHANGED <<process, g_counter, g_buffer, g_buffer_len, overrun, g_mutex,
                 reg, temp, started, lock_rc, uninit_ops, otherThanThreads>>

\* line 97 with temp == NULL: the store through a null pointer ends the process.
thread_function_fault(w) ==
  /\ Running(w) /\ pc[w] = "w_copy" /\ temp[w] = "null"
  /\ process' = "crashed"
  /\ UNCHANGED <<pc, g_counter, g_buffer, g_buffer_len, overrun, g_mutex, reg,
                 temp, started, lock_rc, uninit_ops, otherThanThreads>>

thread_function(w) ==
  \/ thread_function_load(w)
  \/ thread_function_store(w)
  \/ thread_function_check(w)
  \/ thread_function_strcpy(w)
  \/ thread_function_malloc(w)
  \/ thread_function_return(w)
  \/ thread_function_fault(w)

main ==
  \/ main_pthread_create
  \/ main_pthread_mutex_lock
  \/ main_load
  \/ main_store
  \/ main_pthread_mutex_unlock
  \/ main_rest

ThreadsNext == main \/ \E w \in Workers : thread_function(w)

(***************************************************************************)
(* Part 2: BadSingleton                                                    *)
(***************************************************************************)

\* Client threads calling BadSingleton::getInstance().
NumClients == 2

\* Calls each client makes.
MaxCalls == 2

\* Uses of the public destructor (delete on a pointer getInstance returned).
MaxDeletes == 2

Clients == 1..NumClients

nullptr == 0

SingletonInit ==
  /\ instance = nullptr
  /\ ctor_runs = 0
  /\ deleted = {}
  /\ deletes = 0
  /\ double_deletes = 0
  /\ s_pc = [c \in Clients |-> "idle"]
  /\ s_local = [c \in Clients |-> nullptr]
  /\ s_ret = [c \in Clients |-> nullptr]
  /\ s_out = [c \in Clients |-> "none"]
  /\ s_calls = [c \in Clients |-> 0]
  /\ s_after_delete = [c \in Clients |-> FALSE]
  /\ s_begin_ret = [c \in Clients |-> {}]

Returned == {s_ret[c] : c \in Clients} \ {nullptr}

\* A client enters getInstance().
getInstance_call(c) ==
  /\ s_pc[c] = "idle" /\ s_calls[c] < MaxCalls
  /\ s_pc' = [s_pc EXCEPT ![c] = "check"]
  /\ s_calls' = [s_calls EXCEPT ![c] = @ + 1]
  /\ s_after_delete' = [s_after_delete EXCEPT ![c] = deletes > 0]
  /\ s_begin_ret' = [s_begin_ret EXCEPT ![c] = Returned]
  /\ s_out' = [s_out EXCEPT ![c] = "none"]
  /\ UNCHANGED <<instance, ctor_runs, deleted, deletes, double_deletes, s_local,
                 s_ret, otherThanSingleton>>

\* line 224: if (instance == nullptr)
getInstance_check(c) ==
  /\ s_pc[c] = "check"
  /\ s_pc' = [s_pc EXCEPT ![c] = IF instance = nullptr THEN "new" ELSE "ret"]
  /\ UNCHANGED <<instance, ctor_runs, deleted, deletes, double_deletes, s_local,
                 s_ret, s_out, s_calls, s_after_delete, s_begin_ret, otherThanSingleton>>

\* line 226, right-hand side: new BadSingleton() (constructor, lines 235-237).
getInstance_new(c) ==
  /\ s_pc[c] = "new"
  /\ ctor_runs' = ctor_runs + 1
  /\ s_local' = [s_local EXCEPT ![c] = ctor_runs + 1]
  /\ s_pc' = [s_pc EXCEPT ![c] = "assign"]
  /\ UNCHANGED <<instance, deleted, deletes, double_deletes, s_ret, s_out,
                 s_calls, s_after_delete, s_begin_ret, otherThanSingleton>>

\* line 226 when operator new or new int[1000] throws std::bad_alloc.
getInstance_bad_alloc(c) ==
  /\ s_pc[c] = "new"
  /\ s_pc' = [s_pc EXCEPT ![c] = "idle"]
  /\ s_out' = [s_out EXCEPT ![c] = "bad_alloc"]
  /\ s_ret' = [s_ret EXCEPT ![c] = nullptr]
  /\ UNCHANGED <<instance, ctor_runs, deleted, deletes, double_deletes, s_local,
                 s_calls, s_after_delete, s_begin_ret, otherThanSingleton>>

\* line 226, the store: instance = <the new object>
getInstance_assign(c) ==
  /\ s_pc[c] = "assign"
  /\ instance' = s_local[c]
  /\ s_pc' = [s_pc EXCEPT ![c] = "ret"]
  /\ UNCHANGED <<ctor_runs, deleted, deletes, double_deletes, s_local, s_ret,
                 s_out, s_calls, s_after_delete, s_begin_ret, otherThanSingleton>>

\* line 228: return instance (instance is read again).
getInstance_return(c) ==
  /\ s_pc[c] = "ret"
  /\ s_ret' = [s_ret EXCEPT ![c] = instance]
  /\ s_out' = [s_out EXCEPT ![c] = "instance"]
  /\ s_pc' = [s_pc EXCEPT ![c] = "idle"]
  /\ UNCHANGED <<instance, ctor_runs, deleted, deletes, double_deletes, s_local,
                 s_calls, s_after_delete, s_begin_ret, otherThanSingleton>>

\* lines 231-232: the destructor is public and empty, so a client may write
\* delete p for a pointer p that getInstance returned. Neither data nor
\* instance is touched: instance keeps pointing at the deleted object.
BadSingleton_delete(c) ==
  /\ s_pc[c] = "idle" /\ s_ret[c] # nullptr
  /\ deletes < MaxDeletes
  /\ deletes' = deletes + 1
  /\ deleted' = deleted \cup {s_ret[c]}
  /\ double_deletes' = IF s_ret[c] \in deleted THEN double_deletes + 1
                       ELSE double_deletes
  /\ UNCHANGED <<instance, ctor_runs, s_pc, s_local, s_ret, s_out, s_calls,
                 s_after_delete, s_begin_ret, otherThanSingleton>>

getInstance(c) ==
  \/ getInstance_call(c)
  \/ getInstance_check(c)
  \/ getInstance_new(c)
  \/ getInstance_bad_alloc(c)
  \/ getInstance_assign(c)
  \/ getInstance_return(c)

SingletonNext == \E c \in Clients : getInstance(c) \/ BadSingleton_delete(c)

(***************************************************************************)
(* Part 3: BadResourceManager and DerivedBadClass                          *)
(***************************************************************************)

\* Objects the surrounding program constructs.
MaxObjects == 3

\* new char[1024] and buffer_size = 1024 (lines 37, 39).
BufferBytes == 1024

Slots == 1..MaxObjects

NULL == 0

NoObject ==
  [state |-> "none", kind |-> "none", made_by |-> "none", via |-> "none",
   data |-> NULL, file_handle |-> NULL, buffer_size |-> 0, extra_data |-> NULL]

ResourceInit ==
  /\ obj = [o \in Slots |-> NoObject]
  /\ heap_new = {}
  /\ heap_malloc = {}
  /\ open_files = {}
  /\ next_id = 1

\* What fopen("/data/temp.txt", "w") returns: a fresh handle, or NULL.
Fopen(ok, id) == IF ok THEN id ELSE NULL

\* What malloc(2048) returns: a fresh block, or NULL.
Malloc(ok, id) == IF ok THEN id ELSE NULL

\* BadResourceManager::BadResourceManager() (lines 36-40) with new char[1024]
\* succeeding; fopen may return NULL, which the constructor does not test.
BadResourceManager_ctor(o) ==
  /\ obj[o].state = "none"
  /\ \E fopen_ok \in BOOLEAN :
       /\ obj' = [obj EXCEPT ![o] =
                    [state |-> "live", kind |-> "base", made_by |-> "ctor",
                     via |-> "none", data |-> next_id,
                     file_handle |-> Fopen(fopen_ok, next_id + 1),
                     buffer_size |-> BufferBytes, extra_data |-> NULL]]
       /\ open_files' = open_files \cup ({Fopen(fopen_ok, next_id + 1)} \ {NULL})
  /\ heap_new' = heap_new \cup {next_id}
  /\ next_id' = next_id + 2
  /\ UNCHANGED <<heap_malloc, otherThanResource>>

\* Line 37 when new char[1024] throws std::bad_alloc: no object comes to be and
\* nothing has been acquired yet. Also the base part of DerivedBadClass().
ctor_bad_alloc(o) ==
  /\ obj[o].state = "none"
  /\ obj' = [obj EXCEPT ![o] = [NoObject EXCEPT !.state = "failed"]]
  /\ UNCHANGED <<heap_new, heap_malloc, open_files, next_id, otherThanResource>>

\* BadResourceManager(const BadResourceManager& other) (lines 49-53). other
\* may be a DerivedBadClass (the copy is then its base part).
BadResourceManager_copy(o, other) ==
  /\ obj[o].state = "none" /\ obj[other].state = "live"
  /\ obj' = [obj EXCEPT ![o] =
               [state |-> "live", kind |-> "base", made_by |-> "copy",
                via |-> "none", data |-> obj[other].data,
                file_handle |-> obj[other].file_handle,
                buffer_size |-> obj[other].buffer_size, extra_data |-> NULL]]
  /\ UNCHANGED <<heap_new, heap_malloc, open_files, next_id, otherThanResource>>

\* BadResourceManager::~BadResourceManager() (lines 43-46): the body is empty.
BadResourceManager_dtor(o) ==
  /\ obj[o].state = "live" /\ obj[o].kind = "base"
  /\ obj' = [obj EXCEPT ![o].state = "destroyed", ![o].via = "own"]
  /\ UNCHANGED <<heap_new, heap_malloc, open_files, next_id, otherThanResource>>

\* DerivedBadClass::DerivedBadClass() (lines 64-66): the base constructor, then
\* extra_data = malloc(2048), unchecked.
DerivedBadClass_ctor(o) ==
  /\ obj[o].state = "none"
  /\ \E fopen_ok \in BOOLEAN, malloc_ok \in BOOLEAN :
       /\ obj' = [obj EXCEPT ![o] =
                    [state |-> "live", kind |-> "derived", made_by |-> "ctor",
                     via |-> "none", data |-> next_id,
                     file_handle |-> Fopen(fopen_ok, next_id + 1),
                     buffer_size |-> BufferBytes,
                     extra_data |-> Malloc(malloc_ok, next_id + 2)]]
       /\ open_files' = open_files \cup ({Fopen(fopen_ok, next_id + 1)} \ {NULL})
       /\ heap_malloc' = heap_malloc \cup ({Malloc(malloc_ok, next_id + 2)} \ {NULL})
  /\ heap_new' = heap_new \cup {next_id}
  /\ next_id' = next_id + 3
  /\ UNCHANGED otherThanResource

\* The implicit ~DerivedBadClass(): nothing is done for extra_data, then the
\* base destructor runs. via = "base" is delete through a BadResourceManager*:
\* the destructor is not virtual (line 42), so at most the base destructor
\* runs; it releases nothing either way.
DerivedBadClass_dtor(o) ==
  /\ obj[o].state = "live" /\ obj[o].kind = "derived"
  /\ \E v \in {"own", "base"} :
       obj' = [obj EXCEPT ![o].state = "destroyed", ![o].via = v]
  /\ UNCHANGED <<heap_new, heap_malloc, open_files, next_id, otherThanResource>>

ResourceNext ==
  \E o \in Slots :
    \/ BadResourceManager_ctor(o)
    \/ ctor_bad_alloc(o)
    \/ \E other \in Slots : BadResourceManager_copy(o, other)
    \/ BadResourceManager_dtor(o)
    \/ DerivedBadClass_ctor(o)
    \/ DerivedBadClass_dtor(o)

(***************************************************************************)
(* Part 4: Java_com_example_BadClass_processString                         *)
(***************************************************************************)

\* Calls made by the Java side.
MaxJniCalls == 2

\* The longest input text, in bytes.
MaxInputLen == 48

\* char result[100] (line 136).
ResultBytes == 100

\* The format of line 137 without its %s:
\* "Processed: " and " with extra long suffix that might overflow".
FormatLen == 54

\* A null jstring.
NullRef == -1

\* What "%s" prints for a null char* where it prints anything: "(null)".
NullTextLen == 6

JniInit ==
  /\ j_pc = "idle"
  /\ j_input = NullRef
  /\ native_string = "unset"
  /\ j_result_len = 0
  /\ j_overrun = 0
  /\ j_borrowed = 0
  /\ j_ret = "none"
  /\ j_calls = 0

\* The Java side calls processString(input).
processString_call ==
  /\ j_pc \in {"idle", "returned"} /\ j_calls < MaxJniCalls
  /\ j_input' \in {NullRef} \cup 0..MaxInputLen
  /\ j_pc' = "get"
  /\ native_string' = "unset"
  /\ j_result_len' = 0
  /\ j_overrun' = 0
  /\ j_ret' = "none"
  /\ j_calls' = j_calls + 1
  /\ UNCHANGED <<j_borrowed, otherThanJni>>

\* line 133: env->GetStringUTFChars(input, NULL), input not tested. It returns
\* the text, to be released by the caller, or NULL when out of memory.
processString_GetStringUTFChars ==
  /\ j_pc = "get" /\ j_input # NullRef
  /\ \E r \in {"chars", "null"} :
       /\ native_string' = r
       /\ j_borrowed' = IF r = "chars" THEN j_borrowed + 1 ELSE j_borrowed
  /\ j_pc' = "sprintf"
  /\ UNCHANGED <<j_input, j_result_len, j_overrun, j_ret, j_calls, otherThanJni>>

\* line 133 with a null input: JNI forbids it and the runtime aborts.
processString_null_input ==
  /\ j_pc = "get" /\ j_input = NullRef
  /\ j_pc' = "fault"
  /\ UNCHANGED <<j_input, native_string, j_result_len, j_overrun, j_borrowed, j_ret,
                 j_calls, otherThanJni>>

\* What sprintf(result, "Processed: %s with ...", text) stores for a text of
\* len bytes: <<bytes inside result, bytes past its end>>.
Sprintf(len) == Strcpy(ResultBytes, FormatLen + len + 1)

\* line 137: sprintf into result with no bound. A null native_string is
\* printed as "(null)" or faults; bytes stored past result may fault too.
processString_sprintf ==
  /\ j_pc = "sprintf"
  /\ LET len == IF native_string = "chars" THEN j_input ELSE NullTextLen
     IN  /\ j_result_len' = Sprintf(len)[1]
         /\ j_overrun' = Sprintf(len)[2]
         /\ \E faults \in BOOLEAN :
              /\ faults => native_string = "null" \/ Sprintf(len)[2] > 0
              /\ j_pc' = IF faults THEN "fault" ELSE "newstring"
  /\ UNCHANGED <<j_input, native_string, j_borrowed, j_ret, j_calls, otherThanJni>>

\* line 143: return env->NewStringUTF(result). native_string has not been
\* released (line 140).
processString_return ==
  /\ j_pc = "newstring"
  /\ j_ret' \in {"jstring", "null"}
  /\ j_pc' = "returned"
  /\ UNCHANGED <<j_input, native_string, j_result_len, j_overrun, j_borrowed,
                 j_calls, otherThanJni>>

JniNext ==
  \/ processString_call
  \/ processString_GetStringUTFChars
  \/ processString_null_input
  \/ processString_sprintf
  \/ processString_return

(***************************************************************************)
(* Part 5: memory_corruption_example and exception_safety_issues           *)
(***************************************************************************)

\* Calls of the two functions made by the surrounding program.
MaxFnCalls == 3

CallsInit ==
  /\ f_fn = "none"
  /\ f_pc = "idle"
  /\ f_exit = "none"
  /\ f_calls = 0
  /\ blocks = << >>
  /\ files = << >>
  /\ buffer1 = NULL
  /\ buffer2 = NULL
  /\ file = NULL
  /\ buffer = NULL
  /\ stale_reads = 0
  /\ double_frees = 0

\* free(p) / delete[] p: the block is released.
Free(heap, p) == [heap EXCEPT ![p] = "freed"]

\* The program calls memory_corruption_example() (line 279).
call_memory_corruption_example ==
  /\ f_pc = "idle" /\ f_calls < MaxFnCalls
  /\ f_fn' = "memory_corruption_example"
  /\ f_pc' = "mc_malloc"
  /\ f_exit' = "none"
  /\ f_calls' = f_calls + 1
  /\ UNCHANGED <<blocks, files, buffer1, buffer2, file, buffer, stale_reads,
                 double_frees, otherThanCalls>>

\* lines 169-170: buffer1 = malloc(256), unchecked; buffer2 = buffer1.
mc_malloc ==
  /\ f_pc = "mc_malloc"
  /\ \E ok \in BOOLEAN :
       /\ buffer1' = Malloc(ok, Len(blocks) + 1)
       /\ buffer2' = Malloc(ok, Len(blocks) + 1)
       /\ blocks' = IF ok THEN Append(blocks, "allocated") ELSE blocks
  /\ f_pc' = "mc_strcpy"
  /\ UNCHANGED <<f_fn, f_exit, f_calls, files, file, buffer, stale_reads,
                 double_frees, otherThanCalls>>

\* line 172: strcpy(buffer1, "Hello"); a null buffer1 faults.
mc_strcpy ==
  /\ f_pc = "mc_strcpy"
  /\ f_pc' = IF buffer1 = NULL THEN "fault" ELSE "mc_free1"
  /\ UNCHANGED <<f_fn, f_exit, f_calls, blocks, files, buffer1, buffer2, file,
                 buffer, stale_reads, double_frees, otherThanCalls>>

\* line 173: free(buffer1)
mc_free1 ==
  /\ f_pc = "mc_free1"
  /\ double_frees' = IF blocks[buffer1] = "freed" THEN double_frees + 1
                     ELSE double_frees
  /\ blocks' = Free(blocks, buffer1)
  /\ f_pc' = "mc_printf"
  /\ UNCHANGED <<f_fn, f_exit, f_calls, files, buffer1, buffer2, file, buffer,
                 stale_reads, otherThanCalls>>

\* line 176: printf("Buffer content: %s\n", buffer2) reads the block.
mc_printf ==
  /\ f_pc = "mc_printf"
  /\ stale_reads' = IF blocks[buffer2] = "freed" THEN stale_reads + 1
                    ELSE stale_reads
  /\ f_pc' = "mc_free2"
  /\ UNCHANGED <<f_fn, f_exit, f_calls, blocks, files, buffer1, buffer2, file,
                 buffer, double_frees, otherThanCalls>>

\* line 179: free(buffer2). Freeing a freed block is undefined: the allocator
\* aborts the process or the call returns.
mc_free2 ==
  /\ f_pc = "mc_free2"
  /\ double_frees' = IF blocks[buffer2] = "freed" THEN double_frees + 1
                     ELSE double_frees
  /\ blocks' = Free(blocks, buffer2)
  /\ \E aborts \in BOOLEAN :
       /\ aborts => blocks[buffer2] = "freed"
       /\ f_pc' = IF aborts THEN "fault" ELSE "idle"
       /\ f_exit' = IF aborts THEN "none" ELSE "return"
  /\ UNCHANGED <<f_fn, f_calls, files, buffer1, buffer2, file, buffer,
                 stale_reads, otherThanCalls>>

\* The program calls exception_safety_issues() (line 287).
call_exception_safety_issues ==
  /\ f_pc = "idle" /\ f_calls < MaxFnCalls
  /\ f_fn' = "exception_safety_issues"
  /\ f_pc' = "es_fopen"
  /\ f_exit' = "none"
  /\ f_calls' = f_calls + 1
  /\ file' = NULL
  /\ buffer' = NULL
  /\ UNCHANGED <<blocks, files, buffer1, buffer2, stale_reads, double_frees,
                 otherThanCalls>>

\* line 184: file = fopen("test.txt", "w")
es_fopen ==
  /\ f_pc = "es_fopen"
  /\ \E ok \in BOOLEAN :
       /\ file' = Fopen(ok, Len(files) + 1)
       /\ files' = IF ok THEN Append(files, "open") ELSE files
  /\ f_pc' = "es_new"
  /\ UNCHANGED <<f_fn, f_exit, f_calls, blocks, buffer1, buffer2, buffer,
                 stale_reads, double_frees, otherThanCalls>>

\* line 185: buffer = new char[1000]
es_new ==
  /\ f_pc = "es_new"
  /\ buffer' = Len(blocks) + 1
  /\ blocks' = Append(blocks, "allocated")
  /\ f_pc' = "es_at"
  /\ UNCHANGED <<f_fn, f_exit, f_calls, files, buffer1, buffer2, file,
                 stale_reads, double_frees, otherThanCalls>>

\* line 185 when new char[1000] throws std::bad_alloc: the function is left
\* with file still open.
es_new_throws ==
  /\ f_pc = "es_new"
  /\ f_pc' = "idle"
  /\ f_exit' = "throw"
  /\ UNCHANGED <<f_fn, f_calls, blocks, files, buffer1, buffer2, file, buffer,
                 stale_reads, double_frees, otherThanCalls>>

\* lines 188-189: vec is empty, so vec.at(100) throws std::out_of_range and
\* the function is left; fclose(file) and delete[] buffer (lines 192-193) are
\* never reached.
es_at_throws ==
  /\ f_pc = "es_at"
  /\ f_pc' = "idle"
  /\ f_exit' = "throw"
  /\ UNCHANGED <<f_fn, f_calls, blocks, files, buffer1, buffer2, file, buffer,
                 stale_reads, double_frees, otherThanCalls>>

memory_corruption_example ==
  \/ call_memory_corruption_example
  \/ mc_malloc
  \/ mc_strcpy
  \/ mc_free1
  \/ mc_printf
  \/ mc_free2

exception_safety_issues ==
  \/ call_exception_safety_issues
  \/ es_fopen
  \/ es_new
  \/ es_new_throws
  \/ es_at_throws

CallsNext == memory_corruption_example \/ exception_safety_issues

(***************************************************************************)
(* Part 6: calculate_buffer_size                                           *)
(***************************************************************************)

\* Arguments are drawn from -MaxSmallArg..MaxSmallArg and from LargeArgs.
MaxSmallArg == 4

\* The smallest int.
IntMin == -IntMax - 1

\* Arguments whose products leave the range of int, or reach its ends.
LargeArgs == {IntMin, -65536, -46341, 1000, 32768, 46340, 46341, 65536,
              1073741823, 1431655766, IntMax}

Ints == (-MaxSmallArg..MaxSmallArg) \cup LargeArgs

\* Byte i (0..3) of the two's complement representation of the int a.
Byte(a, i) ==
  (a \div (IF i = 0 THEN 1 ELSE IF i = 1 THEN 256
           ELSE IF i = 2 THEN 65536 ELSE 16777216)) % 256

\* a * b on int as the hardware computes it: the low 32 bits of the product,
\* read as a signed value (byte-wise long multiplication).
Mul32(a, b) ==
  LET c0 == Byte(a, 0) * Byte(b, 0)
      c1 == Byte(a, 0) * Byte(b, 1) + Byte(a, 1) * Byte(b, 0) + (c0 \div 256)
      c2 == Byte(a, 0) * Byte(b, 2) + Byte(a, 1) * Byte(b, 1)
            + Byte(a, 2) * Byte(b, 0) + (c1 \div 256)
      c3 == Byte(a, 0) * Byte(b, 3) + Byte(a, 1) * Byte(b, 2)
            + Byte(a, 2) * Byte(b, 1) + Byte(a, 3) * Byte(b, 0) + (c2 \div 256)
      top == c3 % 256
  IN  (c0 % 256) + 256 * (c1 % 256) + 65536 * (c2 % 256)
      + 16777216 * (IF top >= 128 THEN top - 256 ELSE top)

\* |a| for an int other than IntMin.
Abs(a) == IF a < 0 THEN -a ELSE a

\* The largest |a| for which |a| * m stays within the range of int, m > 0:
\* IntMax \div m for a positive product, (IntMax + 1) \div m for a negative one.
MaxFactor(m, negative) ==
  IF negative /\ IntMax % m = m - 1 THEN IntMax \div m + 1 ELSE IntMax \div m

\* Whether a * b leaves the range of int (undefined for a signed int).
Overflows(a, b) ==
  IF a = 0 \/ b = 0 THEN FALSE
  ELSE IF a = IntMin THEN b # 1
  ELSE IF b = IntMin THEN a # 1
  ELSE IF Abs(b) = 1 THEN FALSE
  ELSE Abs(a) > MaxFactor(Abs(b), (a < 0) # (b < 0))

CalcInit ==
  /\ c_pc = "idle"
  /\ num_elements = 0
  /\ element_size = 0
  /\ total_size = 0
  /\ c_ret = 0
  /\ c_defined = TRUE

\* calculate_buffer_size(num_elements, element_size) is called.
calculate_buffer_size_call ==
  /\ c_pc = "idle"
  /\ num_elements' \in Ints
  /\ element_size' \in Ints
  /\ c_pc' = "multiply"
  /\ UNCHANGED <<total_size, c_ret, c_defined, otherThanCalc>>

\* line 106: total_size = num_elements * element_size, unchecked. On overflow
\* the build either keeps the low 32 bits or traps.
calculate_buffer_size_multiply ==
  /\ c_pc = "multiply"
  /\ total_size' = Mul32(num_elements, element_size)
  /\ \E traps \in BOOLEAN :
       /\ traps => Overflows(num_elements, element_size)
       /\ c_pc' = IF traps THEN "trap" ELSE "test"
  /\ UNCHANGED <<num_elements, element_size, c_ret, c_defined, otherThanCalc>>

\* lines 109-111: if (total_size > 0) return total_size;
calculate_buffer_size_return_total ==
  /\ c_pc = "test" /\ total_size > 0
  /\ c_ret' = total_size
  /\ c_defined' = TRUE
  /\ c_pc' = "returned"
  /\ UNCHANGED <<num_elements, element_size, total_size, otherThanCalc>>

\* lines 114-115: int result; return result; the value is indeterminate.
calculate_buffer_size_return_result ==
  /\ c_pc = "test" /\ ~(total_size > 0)
  /\ c_ret' \in Ints
  /\ c_defined' = FALSE
  /\ c_pc' = "returned"
  /\ UNCHANGED <<num_elements, element_size, total_size, otherThanCalc>>

calculate_buffer_size ==
  \/ calculate_buffer_size_call
  \/ calculate_buffer_size_multiply
  \/ calculate_buffer_size_return_total
  \/ calculate_buffer_size_return_result

(***************************************************************************)
(* Specifications                                                          *)
(***************************************************************************)

\* The state of a part that a specification leaves alone.
ThreadsIdle == ThreadsInit /\ g_buffer = NULL

InitThreads == ThreadsInit /\ SingletonInit /\ ResourceInit /\ JniInit /\ CallsInit
                 /\ CalcInit

SpecThreads == InitThreads /\ [][ThreadsNext]_vars

InitSingleton == ThreadsIdle /\ SingletonInit /\ ResourceInit /\ JniInit /\ CallsInit
                 /\ CalcInit

SpecSingleton == InitSingleton /\ [][SingletonNext]_vars

InitResource == ThreadsIdle /\ SingletonInit /\ ResourceInit /\ JniInit /\ CallsInit
                 /\ CalcInit

SpecResource == InitResource /\ [][ResourceNext]_vars

InitJni == ThreadsIdle /\ SingletonInit /\ ResourceInit /\ JniInit /\ CallsInit
                 /\ CalcInit

SpecJni == InitJni /\ [][JniNext]_vars

InitCalls == ThreadsIdle /\ SingletonInit /\ ResourceInit /\ JniInit /\ CallsInit
                 /\ CalcInit

SpecCalls == InitCalls /\ [][CallsNext]_vars

InitCalc == ThreadsIdle /\ SingletonInit /\ ResourceInit /\ JniInit /\ CallsInit
            /\ CalcInit

SpecCalc == InitCalc /\ [][calculate_buffer_size]_vars

(***************************************************************************)
(* Claims                                                                  *)
(***************************************************************************)

\* Positions of a thread whose g_counter++ has been carried out.
PastIncrement == {"m_unlock", "m_rest", "m_exited",
                  "w_check", "w_strcpy", "w_malloc", "w_copy", "w_done"}

\* Positions of a thread that has run to the end of its part, or never ran.
Completed == {"m_rest", "m_exited", "w_done", "w_notcreated"}

IncrementsPerformed == Cardinality({t \in Threads : pc[t] \in PastIncrement})

\* C1: once main's increment and every created worker have completed,
\* g_counter equals its initial value (0) plus the number of increments
\* performed: no increment is lost, whatever the interleaving.
C1_NoLostUpdate ==
  (\A t \in Threads : pc[t] \in Completed) => g_counter = 0 + IncrementsPerformed

\* C2: when the clients make their first calls to getInstance concurrently
\* (nothing has been deleted), the constructor runs at most once and all the
\* calls that return an instance return the same one.
C2_OneInstance ==
  (deletes = 0 /\ \A c \in Clients : s_calls[c] <= 1) =>
    /\ ctor_runs <= 1
    /\ \A c, d \in Clients :
         s_out[c] = "instance" /\ s_out[d] = "instance" => s_ret[c] = s_ret[d]

\* Positions of a thread that is in the middle of an access to g_counter
\* (loaded, not yet stored) or to g_buffer (tested, not yet written).
InAccess == {"m_store", "w_store", "w_strcpy"}

\* C3: a thread that is in the middle of reading or writing g_counter or
\* g_buffer holds g_mutex; main and the workers alike.
C3_GuardHeldDuringAccess ==
  \A t \in Threads : pc[t] \in InAccess => g_mutex.owner = t

\* C4: g_mutex is initialised before any worker is started and before any
\* lock or unlock is performed on it.
C4_GuardInitialisedBeforeUse ==
  /\ started > 0 => g_mutex.init
  /\ uninit_ops = 0

\* C5: for every object that was constructed and then destroyed, the buffer
\* and the file handle acquired at construction have been released.
C5_NoLeakAfterDestroy ==
  \A o \in Slots :
    obj[o].state = "destroyed" /\ obj[o].made_by = "ctor" =>
      /\ obj[o].data \notin heap_new
      /\ obj[o].file_handle \notin open_files

\* C6: no buffer and no file handle belongs to two live objects at once, so
\* a write through one object's data leaves every other object's buffer
\* content as it was.
C6_CopyIsIndependent ==
  \A a, b \in Slots :
    a # b /\ obj[a].state = "live" /\ obj[b].state = "live" =>
      /\ obj[a].data # obj[b].data
      /\ obj[a].file_handle # NULL => obj[a].file_handle # obj[b].file_handle
      /\ LET content == [id \in 1..next_id |-> "old"]
             written == [content EXCEPT ![obj[a].data] = "new"]
         IN  written[obj[b].data] = content[obj[b].data]

\* C7: destroying a DerivedBadClass, through its own type or through a
\* BadResourceManager*, releases extra_data and the base's buffer and file.
C7_DerivedDestroyReleasesAll ==
  \A o \in Slots :
    obj[o].state = "destroyed" /\ obj[o].kind = "derived" =>
      /\ obj[o].extra_data \notin heap_malloc
      /\ obj[o].data \notin heap_new
      /\ obj[o].file_handle \notin open_files

C9_ClosedAfterShutdown ==
  \A c \in Clients : s_after_delete[c] => s_out[c] # "instance"

\* C10: every constructed object has its buffer and an open (non-null) file
\* handle, and a construction that failed holds nothing.
C10_NoPartialObject ==
  \A o \in Slots :
    /\ obj[o].state = "live" => obj[o].data # NULL /\ obj[o].file_handle # NULL
    /\ obj[o].state = "failed" =>
         obj[o].data \notin heap_new /\ obj[o].file_handle \notin open_files

\* C11: no DerivedBadClass exists whose extra_data is null: when malloc(2048)
\* fails, construction fails and the base's buffer and file are released.
C11_NoNullExtra ==
  \A o \in Slots :
    obj[o].kind = "derived" /\ obj[o].state = "live" => obj[o].extra_data # NULL

\* C13: while nothing has been deleted, a call to getInstance that began after
\* some call had returned instance X returns X, and constructs nothing.
C13_InstanceNeverReplaced ==
  deletes = 0 =>
    \A c \in Clients :
      s_begin_ret[c] # {} =>
        /\ s_pc[c] \notin {"new", "assign"}
        /\ s_out[c] = "instance" => \A x \in s_begin_ret[c] : s_ret[c] = x

\* Positions of main between its pthread_mutex_lock and pthread_mutex_unlock.
InCriticalSection == {"m_load", "m_store", "m_unlock"}

\* C14: g_mutex is owned only by a thread inside the critical section: once
\* main has left it, by any path, the mutex is free, and no worker, finished
\* or abandoned at the end of the process, ever owns it.
C14_GuardReleasedOnExit ==
  /\ \A w \in Workers : g_mutex.owner # w
  /\ pc[MainThread] \notin InCriticalSection => g_mutex.owner = NoThread

\* C14's case: main acquired the mutex, left the critical section and ended the
\* process while a worker was still running (abandoned).
C14_Witness ==
  /\ lock_rc = "ok" /\ pc[MainThread] = "m_exited"
  /\ \E w \in Workers : pc[w] \in {"w_load", "w_store", "w_check", "w_malloc", "w_copy"}
  /\ g_mutex.owner = NoThread

\* C15: every started worker eventually returns. Stated on what a finite run
\* shows: the process never ends (exits or faults) while a started worker has
\* not returned, since such a worker can then never return.
C15_StartedWorkersReturn ==
  process # "running" =>
    \A w \in Workers : pc[w] \in {"w_done", "w_notcreated", "w_unborn"}

C17_NativeStringReleased ==
  j_pc = "returned" => j_borrowed = 0

\* C12: after exception_safety_issues has been left, by return or by an
\* exception, the file it opened is closed and the buffer it allocated is freed.
C12_ReleasedOnEveryExit ==
  f_fn = "exception_safety_issues" /\ f_pc = "idle" /\ f_exit # "none" =>
    /\ file # NULL => files[file] = "closed"
    /\ buffer # NULL => blocks[buffer] = "freed"

\* C18: no step reads a heap block that has been freed, and no block is freed
\* twice, also when it is reached through an aliasing pointer.
C18_NoUseAfterFree ==
  stale_reads = 0 /\ double_frees = 0

\* Whether the product of a and b, as integers, is positive.
ProductPositive(a, b) == (a > 0 /\ b > 0) \/ (a < 0 /\ b < 0)

\* Whether a positive product of a and b is at most IntMax.
PositiveProductFits(a, b) ==
  IF a > 0 THEN a <= IntMax \div b
  ELSE a # IntMin /\ b # IntMin /\ (-a) <= IntMax \div (-b)

\* C19: calculate_buffer_size returns a defined value on every path, and
\* when the product of its arguments is positive it returns that product.
C19_ReturnsTheProduct ==
  c_pc = "returned" =>
    /\ c_defined
    /\ ProductPositive(num_elements, element_size) =>
         IF PositiveProductFits(num_elements, element_size)
         THEN c_ret = num_elements * element_size
         ELSE FALSE

====
